---------------------------- MODULE Spec2Model ----------------------------
(***************************************************************************)
(* Vis3D-ui: the FaceHandDetector component (face-hand-detector.tsx), the  *)
(* SystemStatus dashboard (system-status.tsx) and the status events of the *)
(* 2D-to-3D uploader.                                                       *)
(*                                                                         *)
(* The detector is a React function component.  Its state is the useState  *)
(* cells (isActive, isDetecting, isLoading, status, stats) and the useRef  *)
(* cells (faceDetectorRef, previousFrameRef, animationRef, ...).  Every    *)
(* function of the component is re-created on each render and closes over  *)
(* the useState values OF THAT RENDER; refs and functional setState        *)
(* updates see the current values.  A closure is modelled by the record of *)
(* the state values it captured (Closure).                                  *)
(*                                                                         *)
(* JavaScript numbers are modelled by exact integer arithmetic: a quotient *)
(* a/b compared with a decimal threshold is cross-multiplied.              *)
(***************************************************************************)
EXTENDS Integers, Sequences, FiniteSets, TLC

(***************************************************************************)
(* Bounds of the model.                                                    *)
(***************************************************************************)
\* Size of the camera picture (videoWidth x videoHeight); the working copy
\* is half of it in each direction.
VideoWidth == 180
VideoHeight == 180
\* Most ticks that may be suspended in the native detect call at once.
MaxInFlight == 2
\* Most animation-frame requests the model hands out.
MaxRaf == 2
\* Range of the clock, in units of the 1000 ms FPS window.
MaxClock == 1
\* Most frames counted between two FPS updates.
MaxFrameCount == 2

(***************************************************************************)
(* Program constants.                                                      *)
(***************************************************************************)
maxDetectedFaces == 5
MotionBlockSize == 16
MotionThreshold == 25
SkinBlockSize == 12
minFaceSize == 60
SizeStep == 25
stepSize == 12
MaxFaces == 3
FpsWindow == 1000

(***************************************************************************)
(* Pictures.  An ImageData is a width, a height and its RGBA bytes; the    *)
(* pictures of the model are a background colour, the RGBA quadruple       *)
(* "fill", with opaque white rectangles, "lit", and opaque black           *)
(* rectangles, "marks", painted over it in that order.                     *)
(***************************************************************************)
Min(a, b) == IF a <= b THEN a ELSE b
Max(a, b) == IF a >= b THEN a ELSE b
Abs(a) == IF a >= 0 THEN a ELSE -a

Region(x, y, w, h) == [x |-> x, y |-> y, width |-> w, height |-> h]

\* The colour of a mark and of a lit rectangle.
Ink == <<0, 0, 0, 255>>
Paper == <<255, 255, 255, 255>>
\* A white wall with one dark band across it at eye height, as it lands on
\* the working copy.
Portrait == [fill |-> <<255, 255, 255, 255>>, lit |-> {},
             marks |-> {Region(12, 18, 40, 12)}]
\* What the camera may show: black, white, a saturated blue, the portrait.
Scenes == {[fill |-> <<0, 0, 0, 255>>, lit |-> {}, marks |-> {}],
           [fill |-> <<255, 255, 255, 255>>, lit |-> {}, marks |-> {}],
           [fill |-> <<10, 10, 200, 255>>, lit |-> {}, marks |-> {}],
           Portrait}
\* A canvas nothing was drawn on is transparent black.
Transparent == [fill |-> <<0, 0, 0, 0>>, lit |-> {}, marks |-> {}]

\* previousFrameRef.current = null
NoFrame == [width |-> 0, height |-> 0, fill |-> Transparent.fill, lit |-> {}, marks |-> {}]

\* canvas.width = video.videoWidth; tempCanvas.width = canvas.width / 2
\* (a canvas dimension is an unsigned long: the half is truncated).
WorkWidth == VideoWidth \div 2
WorkHeight == VideoHeight \div 2

\* tempCtx.drawImage(video, 0, 0, w, h); tempCtx.getImageData(0, 0, w, h).
\* A video element without a stream paints nothing.
getImageData(streaming, scene) ==
    [width |-> WorkWidth, height |-> WorkHeight,
     fill |-> IF streaming THEN scene.fill ELSE Transparent.fill,
     lit |-> IF streaming THEN scene.lit ELSE Transparent.lit,
     marks |-> IF streaming THEN scene.marks ELSE Transparent.marks]

DataLength(img) == img.width * img.height * 4
\* imageData.data[idx]: byte idx % 4 of pixel idx / 4, rows first.
Inside(rects, px, py) ==
    \E m \in rects : /\ m.x <= px /\ px < m.x + m.width
                     /\ m.y <= py /\ py < m.y + m.height
Marked(img, px, py) == Inside(img.marks, px, py)
Lit(img, px, py) == Inside(img.lit, px, py)
DataAt(img, idx) ==
    IF Marked(img, (idx \div 4) % img.width, (idx \div 4) \div img.width)
    THEN Ink[(idx % 4) + 1]
    ELSE IF Lit(img, (idx \div 4) % img.width, (idx \div 4) \div img.width)
    THEN Paper[(idx % 4) + 1]
    ELSE img.fill[(idx % 4) + 1]

\* The index pairs of the loops "for dy < rows, for dx < cols".
Offsets(rows, cols) == (0..(rows - 1)) \X (0..(cols - 1))

\* Sum of f[dy, dx] over those loops.
RECURSIVE SumRow(_, _, _)
SumRow(f, dy, cols) ==
    IF cols = 0 THEN 0 ELSE f[dy, cols - 1] + SumRow(f, dy, cols - 1)
RECURSIVE SumBlock(_, _, _)
SumBlock(f, rows, cols) ==
    IF rows = 0 THEN 0 ELSE SumRow(f, rows - 1, cols) + SumBlock(f, rows - 1, cols)

\* The values v0, v0 + step, ... of a loop "for (v = v0; v < limit; v += step)",
\* in order.
LoopValues(v0, limit, step) ==
    LET n == IF limit <= v0 THEN 0 ELSE (limit - v0 + step - 1) \div step
    IN  [k \in 1..n |-> v0 + (k - 1) * step]

\* The concatenation of a sequence of sequences.
RECURSIVE Flatten(_)
Flatten(ss) == IF ss = <<>> THEN <<>> ELSE Head(ss) \o Flatten(Tail(ss))

(***************************************************************************)
(* calculateOverlap: intersection over union, as the pair                  *)
(* <<intersectionArea, unionArea>>; 0 is <<0, 1>>.                          *)
(***************************************************************************)
\* calculateOverlap dividing by the smaller of the two areas.
calculateOverlapOfSmaller(rect1, rect2) ==
    LET x1 == Max(rect1.x, rect2.x)
        y1 == Max(rect1.y, rect2.y)
        x2 == Min(rect1.x + rect1.width, rect2.x + rect2.width)
        y2 == Min(rect1.y + rect1.height, rect2.y + rect2.height)
    IN  IF x2 <= x1 \/ y2 <= y1 THEN <<0, 1>>
        ELSE <<(x2 - x1) * (y2 - y1),
               Min(rect1.width * rect1.height, rect2.width * rect2.height)>>

\* calculateOverlap without the early return for rectangles that do not
\* intersect.
calculateOverlapUnguarded(rect1, rect2) ==
    LET x1 == Max(rect1.x, rect2.x)
        y1 == Max(rect1.y, rect2.y)
        x2 == Min(rect1.x + rect1.width, rect2.x + rect2.width)
        y2 == Min(rect1.y + rect1.height, rect2.y + rect2.height)
        intersectionArea == (x2 - x1) * (y2 - y1)
    IN  <<intersectionArea,
          rect1.width * rect1.height + rect2.width * rect2.height - intersectionArea>>

calculateOverlap(rect1, rect2) ==
    LET x1 == Max(rect1.x, rect2.x)
        y1 == Max(rect1.y, rect2.y)
        x2 == Min(rect1.x + rect1.width, rect2.x + rect2.width)
        y2 == Min(rect1.y + rect1.height, rect2.y + rect2.height)
        intersectionArea == (x2 - x1) * (y2 - y1)
        rect1Area == rect1.width * rect1.height
        rect2Area == rect2.width * rect2.height
        unionArea == rect1Area + rect2Area - intersectionArea
    IN  IF x2 <= x1 \/ y2 <= y1 THEN <<0, 1>> ELSE <<intersectionArea, unionArea>>

\* overlap > num/den for a ratio overlap = <<a, b>>, b > 0
RatioGreater(overlap, num, den) == overlap[1] * den > num * overlap[2]

(***************************************************************************)
(* Colour conversion and the skin rule.  u and v are scaled by 1000.       *)
(***************************************************************************)
\* rgbToYuv with the chroma channels centred on 128, as in 8-bit YCbCr.
rgbToYuvCentred(r, g, b) ==
    [y |-> 299 * r + 587 * g + 114 * b,
     u |-> -169 * r - 331 * g + 500 * b + 128000,
     v |-> 500 * r - 419 * g - 81 * b + 128000]

rgbToYuv(r, g, b) ==
    [y |-> 299 * r + 587 * g + 114 * b,
     u |-> -169 * r - 331 * g + 500 * b,
     v |-> 500 * r - 419 * g - 81 * b]

\* h = Math.round(h * 60), plus 360 when negative (Math.round is floor(x + 1/2))
HueDegrees(rounded) == IF rounded < 0 THEN rounded + 360 ELSE rounded

\* rgbToHsv once max and diff are known: h60 is 60 * h * diff before rounding;
\* s is the pair <<diff, max>>.
HsvOf(r, g, b, max, diff) ==
    LET h60 == IF max = r THEN 60 * (g - b)
               ELSE IF max = g THEN 60 * (b - r) + 120 * diff
               ELSE 60 * (r - g) + 240 * diff
    IN  [h |-> HueDegrees(IF diff = 0 THEN 0 ELSE (2 * h60 + diff) \div (2 * diff)),
         s |-> IF max = 0 THEN <<0, 1>> ELSE <<diff, max>>,
         v |-> max]

rgbToHsv(r, g, b) ==
    HsvOf(r, g, b, Max(r, Max(g, b)), Max(r, Max(g, b)) - Min(r, Min(g, b)))

\* The three rules required together.
SkinRulesAll(r, g, b, yuv, hsv) ==
    /\ yuv.u >= -20000 /\ yuv.u <= 30000 /\ yuv.v >= -15000 /\ yuv.v <= 25000
    /\ hsv.h >= 0 /\ hsv.h <= 60
    /\ 5 * hsv.s[1] >= hsv.s[2] /\ 5 * hsv.s[1] <= 4 * hsv.s[2]
    /\ r > 85 /\ g > 35 /\ b > 15
    /\ Max(r, Max(g, b)) - Min(r, Min(g, b)) > 12
    /\ Abs(r - g) > 12 /\ r > g /\ r > b

\* The three rules on one pixel's RGB, YUV and HSV.
SkinRules(r, g, b, yuv, hsv) ==
    LET yuvSkin == yuv.u >= -20000 /\ yuv.u <= 30000 /\ yuv.v >= -15000 /\ yuv.v <= 25000
        hsvSkin == /\ hsv.h >= 0 /\ hsv.h <= 60
                   /\ 5 * hsv.s[1] >= hsv.s[2] /\ 5 * hsv.s[1] <= 4 * hsv.s[2]
        rgbSkin == /\ r > 85 /\ g > 35 /\ b > 15
                   /\ Max(r, Max(g, b)) - Min(r, Min(g, b)) > 12
                   /\ Abs(r - g) > 12 /\ r > g /\ r > b
    IN  yuvSkin \/ hsvSkin \/ rgbSkin

isAdvancedSkinColor(r, g, b) == SkinRules(r, g, b, rgbToYuv(r, g, b), rgbToHsv(r, g, b))

(***************************************************************************)
(* The hand path: block motion, block skin, fusion, shape filter.          *)
(***************************************************************************)
\* Block origins of "for (v = 0; v < dim - blockSize; v += blockSize)".
BlockOrigins(dim, blockSize) == LoopValues(0, dim - blockSize, blockSize)

\* All blocks of a width x height picture, rows outermost, as regions.
Blocks(width, height, blockSize) ==
    LET ys == BlockOrigins(height, blockSize)
        xs == BlockOrigins(width, blockSize)
    IN  Flatten([i \in 1..Len(ys) |->
                   [j \in 1..Len(xs) |-> Region(xs[j], ys[i], blockSize, blockSize)]])

\* motionSum and pixelCount of one block; the grey values are kept times 3.
MotionOfBlock(current, previous, width, x, y) ==
    LET idx(dy, dx) == ((y + dy) * width + (x + dx)) * 4
        inside(dy, dx) == /\ idx(dy, dx) < DataLength(current)
                          /\ idx(dy, dx) < DataLength(previous)
        gray3(img, i) == DataAt(img, i) + DataAt(img, i + 1) + DataAt(img, i + 2)
        delta == [o \in Offsets(MotionBlockSize, MotionBlockSize) |->
                    IF inside(o[1], o[2])
                    THEN Abs(gray3(current, idx(o[1], o[2])) - gray3(previous, idx(o[1], o[2])))
                    ELSE 0]
        one == [o \in Offsets(MotionBlockSize, MotionBlockSize) |->
                  IF inside(o[1], o[2]) THEN 1 ELSE 0]
    IN  [motionSum3 |-> SumBlock(delta, MotionBlockSize, MotionBlockSize),
         pixelCount |-> SumBlock(one, MotionBlockSize, MotionBlockSize)]

\* if (pixelCount > 0 && motionSum / pixelCount > threshold)
IsMotion(m) == m.pixelCount > 0 /\ m.motionSum3 > 3 * MotionThreshold * m.pixelCount

detectMotion(current, previous, width, height) ==
    LET moved(block) == IsMotion(MotionOfBlock(current, previous, width, block.x, block.y))
    IN  SelectSeq(Blocks(width, height, MotionBlockSize), moved)

SkinOfBlock(data, width, x, y) ==
    LET idx(dy, dx) == ((y + dy) * width + (x + dx)) * 4
        inside(dy, dx) == idx(dy, dx) < DataLength(data)
        skin == [o \in Offsets(SkinBlockSize, SkinBlockSize) |->
                   IF inside(o[1], o[2]) /\ isAdvancedSkinColor(DataAt(data, idx(o[1], o[2])),
                                                                DataAt(data, idx(o[1], o[2]) + 1),
                                                                DataAt(data, idx(o[1], o[2]) + 2))
                   THEN 1 ELSE 0]
        one == [o \in Offsets(SkinBlockSize, SkinBlockSize) |->
                  IF inside(o[1], o[2]) THEN 1 ELSE 0]
    IN  [skinPixels |-> SumBlock(skin, SkinBlockSize, SkinBlockSize),
         totalPixels |-> SumBlock(one, SkinBlockSize, SkinBlockSize)]

\* if (totalPixels > 0 && skinPixels / totalPixels > 0.65)
IsSkin(c) == c.totalPixels > 0 /\ 100 * c.skinPixels > 65 * c.totalPixels

detectSkinRegions(data, width, height) ==
    LET skinny(block) == IsSkin(SkinOfBlock(data, width, block.x, block.y))
    IN  SelectSeq(Blocks(width, height, SkinBlockSize), skinny)

\* Fuse giving the part the two regions share.
FuseIntersection(motion, skin) ==
    Region(Max(motion.x, skin.x), Max(motion.y, skin.y),
           Min(motion.x + motion.width, skin.x + skin.width) - Max(motion.x, skin.x),
           Min(motion.y + motion.height, skin.y + skin.height) - Max(motion.y, skin.y))

\* The bounding box of two regions.
Fuse(motion, skin) ==
    LET minX == Min(motion.x, skin.x)
        minY == Min(motion.y, skin.y)
        maxX == Max(motion.x + motion.width, skin.x + skin.width)
        maxY == Max(motion.y + motion.height, skin.y + skin.height)
    IN  Region(minX, minY, maxX - minX, maxY - minY)

\* The fused regions of one motion block with the skin blocks it overlaps.
FuseAll(motion, hits) == [j \in 1..Len(hits) |-> Fuse(motion, hits[j])]

combineMotionAndSkin(motionRegions, skinRegions) ==
    LET fusedWith(motion) ==
            LET near(skin) == RatioGreater(calculateOverlap(motion, skin), 25, 100)
            IN  FuseAll(motion, SelectSeq(skinRegions, near))
    IN  Flatten([i \in 1..Len(motionRegions) |-> fusedWith(motionRegions[i])])

\* isHandLikeShape with the area bound at 200.
isHandLikeShapeSmall(region) ==
    LET area == region.width * region.height
    IN  /\ 10 * region.width > 4 * region.height
        /\ 10 * region.width < 25 * region.height
        /\ area > 200
        /\ area < 8000

\* isHandLikeShape without the bounds on the area.
isHandLikeShapeNoArea(region) ==
    /\ 10 * region.width > 4 * region.height
    /\ 10 * region.width < 25 * region.height

isHandLikeShape(region) ==
    LET area == region.width * region.height
    IN  /\ 10 * region.width > 4 * region.height
        /\ 10 * region.width < 25 * region.height
        /\ area > 300
        /\ area < 8000

ScaleBack(region) ==
    Region(region.x * 2, region.y * 2, region.width * 2, region.height * 2)

\* What the hand path leaves: the hands in full-frame coordinates, the motion
\* regions it saw, and the picture now held by previousFrameRef.
HandResult(kept, motionRegions, imageData) ==
    [hands |-> [i \in 1..Len(kept) |-> ScaleBack(kept[i])],
     motionRegions |-> motionRegions,
     previousFrame |-> imageData]

\* handCandidates.filter(isHandLikeShape).map(scale back)
FilterAndScale(motionRegions, skinRegions, imageData) ==
    HandResult(SelectSeq(combineMotionAndSkin(motionRegions, skinRegions), isHandLikeShape),
               motionRegions, imageData)

\* detectFallbackHands comparing the first picture with an empty canvas.
detectFallbackHandsBlankPrevious(imageData, previousFrame) ==
    FilterAndScale(detectMotion(imageData,
                                IF previousFrame # NoFrame THEN previousFrame
                                ELSE [imageData EXCEPT !.fill = Transparent.fill, !.lit = {}, !.marks = {}],
                                imageData.width, imageData.height),
                   detectSkinRegions(imageData, imageData.width, imageData.height),
                   imageData)

\* detectFallbackHands storing the picture before it looks for motion.
detectFallbackHandsStoreFirst(imageData, previousFrame) ==
    FilterAndScale(IF previousFrame # NoFrame
                   THEN detectMotion(imageData, imageData,
                                     imageData.width, imageData.height)
                   ELSE <<>>,
                   detectSkinRegions(imageData, imageData.width, imageData.height),
                   imageData)

\* detectFallbackHands on the working copy of the picture.
detectFallbackHands(imageData, previousFrame) ==
    FilterAndScale(IF previousFrame # NoFrame
                   THEN detectMotion(imageData, previousFrame,
                                     imageData.width, imageData.height)
                   ELSE <<>>,
                   detectSkinRegions(imageData, imageData.width, imageData.height),
                   imageData)

(***************************************************************************)
(* The face path: grey picture, window score, scan, suppression.           *)
(***************************************************************************)
\* grayData[p] = Math.round(0.299 r + 0.587 g + 0.114 b) of pixel p
GrayLength(img) == img.width * img.height
GrayAt(img, p) ==
    (299 * DataAt(img, 4 * p) + 587 * DataAt(img, 4 * p + 1)
       + 114 * DataAt(img, 4 * p + 2) + 500) \div 1000

\* The eye loops: the sums of both eye bands and the samples counted (a
\* sample counts only when both indices are inside grayData).
EyeSums(grayData, width, eyeRegionY, eyeRegionHeight, leftEyeX, rightEyeX, eyeWidth) ==
    LET leftIdx(dy, dx) == (eyeRegionY + dy) * width + (leftEyeX + dx)
        rightIdx(dy, dx) == (eyeRegionY + dy) * width + (rightEyeX + dx)
        both(dy, dx) == /\ leftIdx(dy, dx) < GrayLength(grayData)
                        /\ rightIdx(dy, dx) < GrayLength(grayData)
        left == [o \in Offsets(eyeRegionHeight, eyeWidth) |->
                   IF both(o[1], o[2]) THEN GrayAt(grayData, leftIdx(o[1], o[2])) ELSE 0]
        right == [o \in Offsets(eyeRegionHeight, eyeWidth) |->
                    IF both(o[1], o[2]) THEN GrayAt(grayData, rightIdx(o[1], o[2])) ELSE 0]
        one == [o \in Offsets(eyeRegionHeight, eyeWidth) |->
                  IF both(o[1], o[2]) THEN 1 ELSE 0]
    IN  [leftEyeSum |-> SumBlock(left, eyeRegionHeight, eyeWidth),
         rightEyeSum |-> SumBlock(right, eyeRegionHeight, eyeWidth),
         pixelCount |-> SumBlock(one, eyeRegionHeight, eyeWidth)]

\* The forehead loop: rows dy < eyeRegionHeight, columns dx < size * 0.6,
\* starting at column x + size * 0.2.
ForeheadSum(grayData, width, foreheadY, eyeRegionHeight, firstX, foreheadWidth) ==
    LET idx(dy, dx) == (foreheadY + dy) * width + (firstX + dx)
        forehead == [o \in Offsets(eyeRegionHeight, foreheadWidth) |->
                       IF idx(o[1], o[2]) < GrayLength(grayData)
                       THEN GrayAt(grayData, idx(o[1], o[2])) ELSE 0]
    IN  SumBlock(forehead, eyeRegionHeight, foreheadWidth)

\* The criteria on the band means.  avgForehead = foreheadSum /
\* (eyeRegionHeight * size * 0.6) is compared with (sum + k * pixelCount) /
\* pixelCount by cross-multiplication.
FaceCriteria(eyes, foreheadSum, eyeRegionHeight, size) ==
    LET foreheadAbove(sum, k) ==
            10 * foreheadSum * eyes.pixelCount
                > 6 * eyeRegionHeight * size * (sum + k * eyes.pixelCount)
        eyesAreDark == /\ eyes.leftEyeSum < 110 * eyes.pixelCount
                       /\ eyes.rightEyeSum < 110 * eyes.pixelCount
        foreheadIsBright == /\ foreheadAbove(eyes.leftEyeSum, 15)
                            /\ foreheadAbove(eyes.rightEyeSum, 15)
        symmetry == Abs(eyes.leftEyeSum - eyes.rightEyeSum) < 25 * eyes.pixelCount
        contrastCheck == foreheadAbove(Min(eyes.leftEyeSum, eyes.rightEyeSum), 20)
    IN  IF eyes.pixelCount = 0 THEN FALSE
        ELSE eyesAreDark /\ foreheadIsBright /\ symmetry /\ contrastCheck

\* The window sizes of the scan are 60 + 25 k, so size * 0.2, size * 0.6 and
\* the forehead indices are whole numbers; the other offsets are floored.
\* The mouth band is summed by the code but takes no part in the result.
isFaceRegion(grayData, width, height, x, y, size) ==
    FaceCriteria(EyeSums(grayData, width, y + (25 * size) \div 100, (25 * size) \div 100,
                         x + (20 * size) \div 100, x + (65 * size) \div 100,
                         (20 * size) \div 100),
                 ForeheadSum(grayData, width, y + (5 * size) \div 100, (25 * size) \div 100,
                             x + (2 * size) \div 10, (6 * size + 9) \div 10),
                 (25 * size) \div 100, size)

Area(r) == r.width * r.height

\* An insertion that puts a face before the faces of its own area.
RECURSIVE InsertByAreaUnstable(_, _)
InsertByAreaUnstable(sorted, face) ==
    IF sorted = <<>> THEN <<face>>
    ELSE IF Area(sorted[Len(sorted)]) > Area(face) THEN Append(sorted, face)
    ELSE Append(InsertByAreaUnstable(SubSeq(sorted, 1, Len(sorted) - 1), face),
                sorted[Len(sorted)])

\* faces.sort((a, b) => b.width * b.height - a.width * a.height): stable,
\* larger area first.
RECURSIVE InsertByArea(_, _)
InsertByArea(sorted, face) ==
    IF sorted = <<>> THEN <<face>>
    ELSE IF Area(sorted[Len(sorted)]) >= Area(face) THEN Append(sorted, face)
    ELSE Append(InsertByArea(SubSeq(sorted, 1, Len(sorted) - 1), face), sorted[Len(sorted)])
RECURSIVE SortByArea(_)
SortByArea(faces) ==
    IF faces = <<>> THEN <<>>
    ELSE InsertByArea(SortByArea(SubSeq(faces, 1, Len(faces) - 1)), faces[Len(faces)])

\* Greedy keeping every face.
GreedyKeepAll(faces, filtered) == filtered \o faces

\* The greedy pass over the sorted faces.
RECURSIVE Greedy(_, _)
Greedy(faces, filtered) ==
    IF faces = <<>> THEN filtered
    ELSE LET face == Head(faces)
             isOverlapping == \E j \in 1..Len(filtered) :
                                  RatioGreater(calculateOverlap(face, filtered[j]), 4, 10)
         IN  Greedy(Tail(faces), IF isOverlapping THEN filtered ELSE Append(filtered, face))

\* filtered.slice(0, 3)
Slice3(filtered) == SubSeq(filtered, 1, Min(MaxFaces, Len(filtered)))

removeOverlappingFaces(faces) == Slice3(Greedy(SortByArea(faces), <<>>))

\* The windows of one row pushed in working-copy coordinates.
FacesAtWorking(found, yy, size) ==
    [j \in 1..Len(found) |-> Region(found[j], yy, size, size)]

\* faces.push({ x: x * 2, y: y * 2, width: size * 2, height: size * 2 }) for the
\* windows of one row that passed.
FacesAt(found, yy, size) ==
    [j \in 1..Len(found) |-> Region(found[j] * 2, yy * 2, size * 2, size * 2)]

\* detectFallbackFaces on the working copy of the picture.
detectFallbackFaces(imageData) ==
    LET width == imageData.width
        height == imageData.height
        \* size <= Math.min(width, height) / 1.5
        sizes == LoopValues(minFaceSize, (2 * Min(width, height)) \div 3 + 1, SizeStep)
        atSize(size) ==
            LET ys == LoopValues(0, height - size + 1, stepSize)
                xs == LoopValues(0, width - size + 1, stepSize)
                row(yy) == LET hit(xx) == isFaceRegion(imageData, width, height, xx, yy, size)
                           IN  FacesAt(SelectSeq(xs, hit), yy, size)
            IN  Flatten([i \in 1..Len(ys) |-> row(ys[i])])
    IN  removeOverlappingFaces(Flatten([k \in 1..Len(sizes) |-> atSize(sizes[k])]))

(***************************************************************************)
(* The state of the page.                                                  *)
(***************************************************************************)
VARIABLES
    mounted,           \* the Dashboard page has been committed and its effects run
    isActive,          \* useState(false)
    isDetecting,       \* useState(true)
    isLoading,         \* useState(false)
    status,            \* useState('Click "Activate" to begin')
    stats,             \* useState({ faces: 0, hands: 0, fps: 0 })
    faceDetectorRef,   \* "null" or "FaceDetector"
    previousFrameRef,  \* NoFrame or the ImageData of the last hand pass
    animationRef,      \* 0 (undefined) or the id of the last requested frame
    frameCountRef,
    fpsUpdateTimeRef,  \* in clock units
    srcObject,         \* videoRef.current.srcObject is a stream
    onloadedmetadata,  \* the closure of the handler set by startCamera
    metadataTask,      \* a loadedmetadata event is queued for the stream
    rafCallbacks,      \* pending requestAnimationFrame callbacks
    nextRafId,
    camera,            \* the startCamera call suspended in getUserMedia
    inFlight,          \* ticks suspended in faceDetector.detect(video)
    now,               \* performance.now(), in units of FpsWindow ms
    activities,        \* SystemStatus: useState of the dashboard
    converting,        \* handleImageUpload of the uploader is running
    lastOp,            \* the operation that produced this state
    pass,              \* the locals of performRealTimeDetection as it returns
    input,             \* the arguments of a function called on its own
    output             \* and what it returned

page == <<mounted, isActive, isDetecting, isLoading, status, stats, faceDetectorRef,
          previousFrameRef, animationRef, frameCountRef, fpsUpdateTimeRef, srcObject,
          onloadedmetadata, metadataTask, rafCallbacks, nextRafId, camera, inFlight,
          now, activities, converting, lastOp, pass>>

vars == <<page, input, output>>

\* The useState values a function of one render closes over.
Closure(active, detecting) == [isActive |-> active, isDetecting |-> detecting]
NoClosure == Closure(FALSE, FALSE)

\* What the environment may answer.
Capabilities == {"present", "absent", "throws"}
\* video.readyState when a tick looks at it: HAVE_METADATA (nothing to draw
\* yet), HAVE_CURRENT_DATA, HAVE_ENOUGH_DATA
ReadyStates == {1, 2, 4}
\* drawImage(video, ...) paints only from HAVE_CURRENT_DATA on.
FrameReady(readyState) == readyState >= 2

\* The i-th face the browser's detector reports: { x, y, width, height } of
\* its boundingBox.
NativeFace(i) == Region(30 * (i - 1), 40, 30, 30)
\* A face at the left edge of the picture: the box around it, which the
\* detector does not clip, starts left of the picture.
EdgeFace == Region(-10, 20, 60, 60)
\* faceDetector.detect(video) resolves with no face, with one, with as many
\* as the detector was built for, or rejects.
NativeOutcomes ==
    {[kind |-> "resolved", faces |-> [i \in 1..n |-> NativeFace(i)]] : n \in {0, 1, maxDetectedFaces}}
        \cup {[kind |-> "resolved", faces |-> <<EdgeFace>>],
              [kind |-> "rejected", faces |-> <<>>]}
\* The tick did not call the detector.
NotCalled == [kind |-> "notCalled", faces |-> <<>>]

\* No pass has just returned.
NoPass == [ran |-> FALSE, ready |-> FALSE, native |-> NotCalled, frame |-> NoFrame,
           previousFrame |-> NoFrame, detectedFaces |-> <<>>, detectedHands |-> <<>>,
           motionRegions |-> <<>>]

\* No function is being called on its own.
NoInput == [fn |-> "none"]
NotRun == [done |-> FALSE]

\* The page as the browser builds it.
PageInit ==
    /\ mounted = FALSE
    /\ isActive = FALSE
    /\ isDetecting = TRUE
    /\ isLoading = FALSE
    /\ status = "Click \"Activate\" to begin"
    /\ stats = [faces |-> 0, hands |-> 0, fps |-> 0]
    /\ faceDetectorRef = "null"
    /\ previousFrameRef = NoFrame
    /\ animationRef = 0
    /\ frameCountRef = 0
    /\ fpsUpdateTimeRef = 0
    /\ srcObject = FALSE
    /\ onloadedmetadata = NoClosure
    /\ metadataTask = FALSE
    /\ rafCallbacks = {}
    /\ nextRafId = 1
    /\ camera = [pending |-> FALSE, closure |-> NoClosure]
    /\ inFlight = <<>>
    /\ now = 0
    /\ activities = [faceDetection |-> FALSE, handDetection |-> FALSE,
                     imageConversion |-> FALSE, cameraActive |-> FALSE]
    /\ converting = FALSE
    /\ lastOp = "init"
    /\ pass = NoPass

Init ==
    /\ PageInit
    /\ input = NoInput
    /\ output = NotRun

(***************************************************************************)
(* The status channel: window.dispatchEvent("systemStatusUpdate").         *)
(***************************************************************************)
\* StatusDetail with the detection flags not gated by the camera.
StatusDetailUngated(active, detecting) ==
    [faceDetection |-> detecting,
     handDetection |-> detecting,
     cameraActive |-> active]

\* The detail the detector's status effect sends.
StatusDetail(active, detecting) ==
    [faceDetection |-> active /\ detecting,
     handDetection |-> active /\ detecting,
     cameraActive |-> active]

\* setActivities((prev) => ({ ...prev, ...event.detail }))
handleSystemUpdate(prev, detail) ==
    [f \in DOMAIN prev |-> IF f \in DOMAIN detail THEN detail[f] ELSE prev[f]]

\* useEffect(..., [isActive, isDetecting]): after a render in which either
\* changed, the detector dispatches its status and the dashboard merges it.
StatusEffect ==
    activities' = IF <<isActive', isDetecting'>> # <<isActive, isDetecting>>
                  THEN handleSystemUpdate(activities, StatusDetail(isActive', isDetecting'))
                  ELSE activities

(***************************************************************************)
(* Mounting: the effects of the first commit, in tree order.  The          *)
(* detector's status effect dispatches before the dashboard has added its  *)
(* listener, so that first event reaches nobody; then the mount effect     *)
(* runs loadDetectionModels (it has no await: it runs to its end), then    *)
(* SystemStatus adds the listener.                                          *)
(***************************************************************************)
\* loadDetectionModels with a catch block that forgets setIsLoading(false).
loadDetectionModelsStuck(capability) ==
    CASE capability = "present" ->
            [isLoading |-> FALSE, faceDetectorRef |-> "FaceDetector",
             status |-> "Models loaded - Click Activate to start"]
      [] capability = "absent" ->
            [isLoading |-> FALSE, faceDetectorRef |-> "null",
             status |-> "Models loaded - Click Activate to start"]
      [] capability = "throws" ->
            [isLoading |-> TRUE, faceDetectorRef |-> "null",
             status |-> "Using fallback detection methods"]

\* loadDetectionModels: what it leaves, for each answer of the browser to
\* "FaceDetector" in window / new window.FaceDetector(...).
loadDetectionModels(capability) ==
    CASE capability = "present" ->
            [isLoading |-> FALSE, faceDetectorRef |-> "FaceDetector",
             status |-> "Models loaded - Click Activate to start"]
      [] capability = "absent" ->
            [isLoading |-> FALSE, faceDetectorRef |-> "null",
             status |-> "Models loaded - Click Activate to start"]
      [] capability = "throws" ->
            [isLoading |-> FALSE, faceDetectorRef |-> "null",
             status |-> "Using fallback detection methods"]

Mount ==
    /\ ~mounted
    /\ \E capability \in Capabilities :
          LET loaded == loadDetectionModels(capability)
          IN  /\ isLoading' = loaded.isLoading
              /\ faceDetectorRef' = loaded.faceDetectorRef
              /\ status' = loaded.status
    /\ mounted' = TRUE
    /\ lastOp' = "mount"
    /\ pass' = NoPass
    /\ UNCHANGED <<input, output>>
    /\ UNCHANGED <<isActive, isDetecting, stats, previousFrameRef, animationRef,
                   frameCountRef, fpsUpdateTimeRef, srcObject, onloadedmetadata,
                   metadataTask, rafCallbacks, nextRafId, camera, inFlight, now,
                   activities, converting>>

(***************************************************************************)
(* The controls.  The first button is disabled while isLoading and calls   *)
(* stopCamera when isActive, startCamera otherwise; the second is rendered *)
(* only when isActive and calls toggleDetection.  A click handler belongs  *)
(* to the latest render, so it sees the current state.                     *)
(***************************************************************************)
\* startCamera up to "await navigator.mediaDevices.getUserMedia(...)"
StartCamera ==
    /\ mounted /\ ~isLoading /\ ~isActive
    /\ isLoading' = TRUE
    /\ status' = "Starting camera..."
    /\ camera' = [pending |-> TRUE, closure |-> Closure(isActive, isDetecting)]
    /\ lastOp' = "startCamera"
    /\ pass' = NoPass
    /\ UNCHANGED <<input, output>>
    /\ UNCHANGED <<mounted, isActive, isDetecting, stats, faceDetectorRef,
                   previousFrameRef, animationRef, frameCountRef, fpsUpdateTimeRef,
                   srcObject, onloadedmetadata, metadataTask, rafCallbacks, nextRafId,
                   inFlight, now, activities, converting>>

\* getUserMedia resolves: the rest of startCamera's try block.  The handler it
\* installs calls the startDetection of the render startCamera belongs to.
CameraGranted ==
    /\ camera.pending
    /\ srcObject' = TRUE
    /\ onloadedmetadata' = camera.closure
    /\ metadataTask' = TRUE
    /\ isActive' = TRUE
    /\ status' = "Camera active - Detection running"
    /\ isLoading' = FALSE
    /\ camera' = [pending |-> FALSE, closure |-> NoClosure]
    /\ lastOp' = "cameraGranted"
    /\ pass' = NoPass
    /\ UNCHANGED <<input, output>>
    /\ UNCHANGED <<mounted, isDetecting, stats, faceDetectorRef, previousFrameRef,
                   animationRef, frameCountRef, fpsUpdateTimeRef, rafCallbacks,
                   nextRafId, inFlight, now, converting>>
    /\ StatusEffect

\* A catch block that reports the failure and leaves isLoading set.
CameraDeniedStuck ==
    /\ camera.pending
    /\ status' = "Camera access denied"
    /\ camera' = [pending |-> FALSE, closure |-> NoClosure]
    /\ lastOp' = "cameraDenied"
    /\ pass' = NoPass
    /\ UNCHANGED <<input, output>>
    /\ UNCHANGED <<mounted, isActive, isDetecting, isLoading, stats, faceDetectorRef,
                   previousFrameRef, animationRef, frameCountRef, fpsUpdateTimeRef,
                   srcObject, onloadedmetadata, metadataTask, rafCallbacks, nextRafId,
                   inFlight, now, activities, converting>>

\* getUserMedia rejects: startCamera's catch block.
CameraDenied ==
    /\ camera.pending
    /\ status' = "Camera access denied"
    /\ isLoading' = FALSE
    /\ camera' = [pending |-> FALSE, closure |-> NoClosure]
    /\ lastOp' = "cameraDenied"
    /\ pass' = NoPass
    /\ UNCHANGED <<input, output>>
    /\ UNCHANGED <<mounted, isActive, isDetecting, stats, faceDetectorRef,
                   previousFrameRef, animationRef, frameCountRef, fpsUpdateTimeRef,
                   srcObject, onloadedmetadata, metadataTask, rafCallbacks, nextRafId,
                   inFlight, now, activities, converting>>

\* stopCamera.  Setting srcObject to null reloads the media element, which
\* drops the events still queued for the old stream.
StopCamera ==
    /\ mounted /\ ~isLoading /\ isActive
    /\ srcObject' = FALSE
    /\ metadataTask' = FALSE
    /\ rafCallbacks' = IF animationRef # 0
                       THEN {c \in rafCallbacks : c.id # animationRef}
                       ELSE rafCallbacks
    /\ isActive' = FALSE
    /\ status' = "Camera stopped"
    /\ stats' = [faces |-> 0, hands |-> 0, fps |-> 0]
    /\ lastOp' = "stopCamera"
    /\ pass' = NoPass
    /\ UNCHANGED <<input, output>>
    /\ UNCHANGED <<mounted, isDetecting, isLoading, faceDetectorRef, previousFrameRef,
                   animationRef, frameCountRef, fpsUpdateTimeRef, onloadedmetadata,
                   nextRafId, camera, inFlight, now, converting>>
    /\ StatusEffect

\* toggleDetection
ToggleDetection ==
    /\ mounted /\ isActive
    /\ isDetecting' = ~isDetecting
    /\ stats' = IF ~isDetecting THEN [stats EXCEPT !.faces = 0, !.hands = 0] ELSE stats
    /\ lastOp' = IF isDetecting THEN "pause" ELSE "resume"
    /\ pass' = NoPass
    /\ UNCHANGED <<input, output>>
    /\ UNCHANGED <<mounted, isActive, isLoading, status, faceDetectorRef,
                   previousFrameRef, animationRef, frameCountRef, fpsUpdateTimeRef,
                   srcObject, onloadedmetadata, metadataTask, rafCallbacks, nextRafId,
                   camera, inFlight, now, converting>>
    /\ StatusEffect

(***************************************************************************)
(* The frame loop.  startDetection() calls detectFrame(); detectFrame is   *)
(* also the callback it hands to requestAnimationFrame.  Both run with the *)
(* closure of the render that startCamera was taken from.  Awaits that     *)
(* only wait for an already settled promise run in the same task; the one  *)
(* await that lets other tasks in is faceDetector.detect(video).            *)
(***************************************************************************)
\* The queued tasks that lead to detectFrame.
Tasks ==
    (IF metadataTask /\ srcObject
     THEN {[kind |-> "loadedmetadata", id |-> 0, closure |-> onloadedmetadata]}
     ELSE {})
    \cup {[kind |-> "animationFrame", id |-> c.id, closure |-> c.closure] : c \in rafCallbacks}

\* detectFrame: if (isDetecting && videoRef.current && canvasRef.current)
RunsPass(closure) == closure.isDetecting

\* detectFrame asking for the next frame whatever isActive is.
RescheduleAlways(closure) == TRUE

\* detectFrame: if (isActive) animationRef.current = requestAnimationFrame(detectFrame)
Reschedule(closure) == closure.isActive

\* updateFPS
updateFPS(frameCount, fpsUpdateTime, clock, st) ==
    LET count == frameCount + 1
        elapsed == (clock - fpsUpdateTime) * FpsWindow
    IN  IF elapsed >= 1000
        THEN [frameCountRef |-> 0, fpsUpdateTimeRef |-> clock,
              stats |-> [st EXCEPT !.fps = (2 * count * 1000 + elapsed) \div (2 * elapsed)]]
        ELSE [frameCountRef |-> count, fpsUpdateTimeRef |-> fpsUpdateTime, stats |-> st]

\* The end of detectFrame: ask for the next frame, or do not.
Requeue(closure, queue) ==
    IF Reschedule(closure)
    THEN /\ nextRafId <= MaxRaf
         /\ animationRef' = nextRafId
         /\ rafCallbacks' = queue \cup {[id |-> nextRafId, closure |-> closure]}
         /\ nextRafId' = nextRafId + 1
    ELSE /\ animationRef' = animationRef
         /\ rafCallbacks' = queue
         /\ nextRafId' = nextRafId

\* The pictures a pass can see, and the two paths on each of them (the
\* values of detectFallbackFaces and detectFallbackHands, computed once).
Blank == getImageData(FALSE, Transparent)
Pictures == {getImageData(TRUE, scene) : scene \in Scenes} \cup {Blank}
\* What drawImage can put on the working copy now.
Seen(readyState) ==
    IF srcObject /\ FrameReady(readyState)
    THEN {getImageData(TRUE, scene) : scene \in Scenes}
    ELSE {Blank}
FacesOf == [imageData \in Pictures |-> detectFallbackFaces(imageData)]
HandsOf == [imageData \in Pictures |->
              [previousFrame \in Pictures \cup {NoFrame} |->
                  detectFallbackHands(imageData, previousFrame)]]

\* detectRealFaces that gives up when the detector rejects.
detectRealFacesNoFallback(native, imageData) ==
    IF native.kind = "resolved" THEN native.faces
    ELSE IF native.kind = "rejected" THEN <<>>
    ELSE FacesOf[imageData]

\* detectRealFaces: the detector's rectangles when it was called and
\* resolved, detectFallbackFaces(video) when it was not called or rejected.
detectRealFaces(native, imageData) ==
    IF native.kind = "resolved" THEN native.faces ELSE FacesOf[imageData]

\* performRealTimeDetection from the face list on, then updateFPS: the hand
\* path on the picture, setStats, the frame counter.
Counted(fps) ==
    /\ stats' = fps.stats
    /\ frameCountRef' = fps.frameCountRef
    /\ fpsUpdateTimeRef' = fps.fpsUpdateTimeRef

Published(detectedFaces, handPath, native, imageData, ready) ==
    /\ previousFrameRef' = handPath.previousFrame
    /\ Counted(updateFPS(frameCountRef, fpsUpdateTimeRef, now,
                         [stats EXCEPT !.faces = Len(detectedFaces),
                                       !.hands = Len(handPath.hands)]))
    /\ pass' = [ran |-> TRUE, ready |-> ready, native |-> native, frame |-> imageData,
                previousFrame |-> previousFrameRef, detectedFaces |-> detectedFaces,
                detectedHands |-> handPath.hands, motionRegions |-> handPath.motionRegions]

PassEnd(native, imageData, ready) ==
    Published(detectRealFaces(native, imageData), HandsOf[imageData][previousFrameRef],
              native, imageData, ready)

\* A queued loadedmetadata event or animation frame runs detectFrame.
RunTask ==
    /\ \E task \in Tasks :
          LET closure == task.closure
              queue == rafCallbacks \ {[id |-> task.id, closure |-> closure]}
          IN  /\ metadataTask' = IF task.kind = "loadedmetadata" THEN FALSE ELSE metadataTask
              /\ IF RunsPass(closure)
                 THEN /\ frameCountRef + Len(inFlight) < MaxFrameCount
                      /\ \E readyState \in ReadyStates :
                            IF faceDetectorRef # "null" /\ readyState = 4
                            THEN \* await faceDetectorRef.current.detect(video)
                                 /\ Len(inFlight) < MaxInFlight
                                 /\ inFlight' = Append(inFlight, closure)
                                 /\ rafCallbacks' = queue
                                 /\ lastOp' = "passSuspended"
                                 /\ pass' = NoPass
                                 /\ UNCHANGED <<stats, previousFrameRef, frameCountRef,
                                                fpsUpdateTimeRef, animationRef, nextRafId>>
                            ELSE \E imageData \in Seen(readyState) :
                                   /\ PassEnd(NotCalled, imageData,
                                              srcObject /\ FrameReady(readyState))
                                   /\ Requeue(closure, queue)
                                   /\ lastOp' = "passRan"
                                   /\ UNCHANGED inFlight
                 ELSE /\ Requeue(closure, queue)
                      /\ lastOp' = "passSkipped"
                      /\ pass' = NoPass
                      /\ UNCHANGED <<stats, previousFrameRef, frameCountRef,
                                     fpsUpdateTimeRef, inFlight>>
    /\ UNCHANGED <<mounted, isActive, isDetecting, isLoading, status, faceDetectorRef,
                   srcObject, onloadedmetadata, camera, now, activities, converting,
                   input, output>>

\* faceDetector.detect(video) settles and the suspended tick runs to its end.
DetectSettles ==
    /\ \E i \in 1..Len(inFlight), native \in NativeOutcomes, readyState \in ReadyStates :
          \E imageData \in Seen(readyState) :
          /\ PassEnd(native, imageData, srcObject /\ FrameReady(readyState))
          /\ Requeue(inFlight[i], rafCallbacks)
          /\ inFlight' = SubSeq(inFlight, 1, i - 1) \o SubSeq(inFlight, i + 1, Len(inFlight))
    /\ lastOp' = "passResumed"
    /\ UNCHANGED <<mounted, isActive, isDetecting, isLoading, status, faceDetectorRef,
                   srcObject, onloadedmetadata, metadataTask, camera, now, activities,
                   converting, input, output>>

\* Time passes.
ClockTick ==
    /\ now < MaxClock
    /\ now' = now + 1
    /\ lastOp' = "clock"
    /\ pass' = NoPass
    /\ UNCHANGED <<input, output>>
    /\ UNCHANGED <<mounted, isActive, isDetecting, isLoading, status, stats,
                   faceDetectorRef, previousFrameRef, animationRef, frameCountRef,
                   fpsUpdateTimeRef, srcObject, onloadedmetadata, metadataTask,
                   rafCallbacks, nextRafId, camera, inFlight, activities, converting>>

(***************************************************************************)
(* The uploader's share of the status channel.                             *)
(***************************************************************************)
\* handleImageUpload: updateSystemStatus({ imageConversion: true }) at its
\* start, ({ imageConversion: false }) in its finally block.
ImageConversion ==
    /\ mounted
    /\ converting' = ~converting
    /\ activities' = handleSystemUpdate(activities, [imageConversion |-> ~converting])
    /\ lastOp' = "imageConversion"
    /\ pass' = NoPass
    /\ UNCHANGED <<input, output>>
    /\ UNCHANGED <<mounted, isActive, isDetecting, isLoading, status, stats,
                   faceDetectorRef, previousFrameRef, animationRef, frameCountRef,
                   fpsUpdateTimeRef, srcObject, onloadedmetadata, metadataTask,
                   rafCallbacks, nextRafId, camera, inFlight, now>>

Next ==
    \/ Mount
    \/ StartCamera
    \/ CameraGranted
    \/ CameraDenied
    \/ StopCamera
    \/ ToggleDetection
    \/ RunTask
    \/ DetectSettles
    \/ ClockTick
    \/ ImageConversion

Spec == Init /\ [][Next]_vars

(***************************************************************************)
(* The functions of the pipeline called on their own, each on arguments    *)
(* drawn from a bounded set.                                                *)
(***************************************************************************)
\* Longest list of candidate faces.
MaxCandidates == 4
\* Longest list of motion blocks and of skin blocks.
MaxBlocks == 2

\* All sequences over S of length at most n.
SeqsUpTo(S, n) == UNION {[1..k -> S] : k \in 0..n}

\* Windows as detectFallbackFaces pushes them (full-frame coordinates): two
\* that overlap heavily, one that contains both, three far from the rest.
CandidateFaces ==
    {Region(0, 0, 120, 120), Region(24, 0, 120, 120), Region(0, 0, 200, 200),
     Region(300, 0, 120, 120), Region(0, 300, 120, 120), Region(300, 300, 170, 170)}

\* Blocks of the motion grid and blocks for the skin argument; (8, 8) is the
\* block of the specification's fusion example.
MotionBlocks == {Region(0, 0, 16, 16), Region(16, 0, 16, 16), Region(0, 16, 16, 16)}
SkinBlocks == {Region(0, 0, 12, 12), Region(12, 0, 12, 12), Region(8, 8, 12, 12),
               Region(24, 24, 12, 12)}

\* One block of the motion grid and one of the skin grid, at every offset
\* the two grids take to each other.
GridMotion == {Region(16 * a, 16 * b, 16, 16) : a \in 0..2, b \in 0..2}
GridSkin == {Region(12 * c, 12 * d, 12, 12) : c \in 0..3, d \in 0..3}

\* Widths and heights of the frames given to detectMotion, and their colours.
FrameSides == {16, 32, 33, 48}
Black == <<0, 0, 0, 255>>
White == <<255, 255, 255, 255>>
Frame(width, height, fill) ==
    [width |-> width, height |-> height, fill |-> fill, lit |-> {}, marks |-> {}]

\* Rectangles given to calculateOverlap: a square, its neighbours across an
\* edge and across a corner, one that crosses it, one inside it, and two
\* far from it and from each other.
OverlapRects ==
    {Region(0, 0, 10, 10), Region(10, 0, 10, 10), Region(10, 10, 10, 10),
     Region(5, 5, 10, 10), Region(2, 2, 4, 4), Region(30, 30, 7, 3), Region(50, 0, 1, 1)}

\* Buffers given to isFaceRegion with the window of size 60 at (0, 0): 60
\* wide, dim or white, dark where the first two rows of the eye bands lie,
\* and either 30 rows long, which holds every sample of the eye and forehead
\* bands, or 17 rows long, which ends inside both.
Dim == <<23, 23, 23, 255>>
Cropped(height, fill) ==
    [width |-> 60, height |-> height, fill |-> fill, lit |-> {},
     marks |-> {Region(12, 15, 12, 2), Region(39, 15, 12, 2)}]

\* Channel values of the pixels given to isAdvancedSkinColor.
SkinLevels == {0, 10, 60, 80, 128, 200, 255}
\* The values of a byte, for the pixels with three equal channels.
Bytes == 0..255
\* Widths and heights of the uniform frames given to detectSkinRegions.
SkinFrameSides == {12, 24, 30, 36}

\* The window of the end-to-end example, and working copies of 128 by 96
\* drawn for it: a lit forehead band and two dark eye bands at the offsets
\* isFaceRegion computes for that window, on a black, a grey or a white
\* ground.
ExampleWindow == Region(20, 10, 64, 64)
Grey == <<128, 128, 128, 255>>
Synthetic(fill) ==
    [width |-> 128, height |-> 96, fill |-> fill,
     lit |-> {Region(32, 13, 40, 16)},
     marks |-> {Region(32, 26, 12, 16), Region(61, 26, 12, 16)}]

\* Widths and heights of the regions given to isHandLikeShape.
ShapeSides == {5, 8, 10, 15, 20, 25, 40, 80, 100, 200}

FunctionsInit ==
    /\ PageInit
    /\ output = NotRun
    /\ \/ input \in {[fn |-> "removeOverlappingFaces", faces |-> faces] :
                         faces \in SeqsUpTo(CandidateFaces, MaxCandidates)}
       \/ input \in {[fn |-> "combineMotionAndSkin", motionRegions |-> m, skinRegions |-> k] :
                         m \in SeqsUpTo(MotionBlocks, MaxBlocks),
                         k \in SeqsUpTo(SkinBlocks, MaxBlocks)}
       \/ input \in {[fn |-> "combineMotionAndSkin", motionRegions |-> <<m>>,
                       skinRegions |-> <<k>>] : m \in GridMotion, k \in GridSkin}
       \/ input \in {[fn |-> "detectMotion", current |-> Frame(w, h, c),
                       previous |-> Frame(w, h, Black)] :
                         w \in FrameSides, h \in FrameSides, c \in {Black, White}}
       \/ input \in {[fn |-> "isHandLikeShape", region |-> Region(0, 0, w, h)] :
                         w \in ShapeSides, h \in ShapeSides}
       \/ input \in {[fn |-> "detectFallbackHands", imageData |-> c, previousFrame |-> q] :
                         c \in Pictures, q \in Pictures \cup {NoFrame}}
       \/ input \in {[fn |-> "detectFallbackFaces", imageData |-> Synthetic(c)] :
                         c \in {Black, Grey, White}}
       \/ input \in {[fn |-> "calculateOverlap", rect1 |-> a, rect2 |-> b] :
                         a \in OverlapRects, b \in OverlapRects}
       \/ input \in {[fn |-> "isAdvancedSkinColor", r |-> r, g |-> g, b |-> b] :
                         r \in SkinLevels, g \in SkinLevels, b \in SkinLevels}
       \/ input \in {[fn |-> "isAdvancedSkinColor", r |-> v, g |-> v, b |-> v] :
                         v \in Bytes}
       \/ input \in {[fn |-> "detectSkinRegions", data |-> Frame(w, h, c)] :
                         w \in SkinFrameSides, h \in SkinFrameSides,
                         c \in {Black, Grey, White}}
       \/ input \in {[fn |-> "isFaceRegion", grayData |-> Cropped(h, c),
                       x |-> 0, y |-> 0, size |-> minFaceSize] :
                         h \in {17, 30}, c \in {Dim, White}}

Returns(value) ==
    /\ ~output.done
    /\ output' = [done |-> TRUE, value |-> value]
    /\ UNCHANGED <<page, input>>

ApplyRemoveOverlappingFaces ==
    /\ input.fn = "removeOverlappingFaces"
    /\ Returns(removeOverlappingFaces(input.faces))

ApplyCombineMotionAndSkin ==
    /\ input.fn = "combineMotionAndSkin"
    /\ Returns(combineMotionAndSkin(input.motionRegions, input.skinRegions))

ApplyDetectMotion ==
    /\ input.fn = "detectMotion"
    /\ Returns(detectMotion(input.current, input.previous,
                            input.current.width, input.current.height))

ApplyIsHandLikeShape ==
    /\ input.fn = "isHandLikeShape"
    /\ Returns(isHandLikeShape(input.region))

ApplyDetectFallbackHands ==
    /\ input.fn = "detectFallbackHands"
    /\ Returns(HandsOf[input.imageData][input.previousFrame])

ApplyDetectFallbackFaces ==
    /\ input.fn = "detectFallbackFaces"
    /\ Returns(detectFallbackFaces(input.imageData))

ApplyCalculateOverlap ==
    /\ input.fn = "calculateOverlap"
    /\ Returns(calculateOverlap(input.rect1, input.rect2))

ApplyIsAdvancedSkinColor ==
    /\ input.fn = "isAdvancedSkinColor"
    /\ Returns(isAdvancedSkinColor(input.r, input.g, input.b))

ApplyIsFaceRegion ==
    /\ input.fn = "isFaceRegion"
    /\ Returns(isFaceRegion(input.grayData, input.grayData.width, input.grayData.height,
                            input.x, input.y, input.size))

ApplyDetectSkinRegions ==
    /\ input.fn = "detectSkinRegions"
    /\ Returns(detectSkinRegions(input.data, input.data.width, input.data.height))

FunctionsNext ==
    \/ ApplyRemoveOverlappingFaces
    \/ ApplyCombineMotionAndSkin
    \/ ApplyDetectMotion
    \/ ApplyIsHandLikeShape
    \/ ApplyDetectFallbackHands
    \/ ApplyDetectFallbackFaces
    \/ ApplyCalculateOverlap
    \/ ApplyIsAdvancedSkinColor
    \/ ApplyIsFaceRegion
    \/ ApplyDetectSkinRegions

Functions == FunctionsInit /\ [][FunctionsNext]_vars

(***************************************************************************)
(* The properties.                                                         *)
(***************************************************************************)
Detecting == isActive /\ isDetecting
Paused == isActive /\ ~isDetecting
\* The step into this state began a pipeline pass (performRealTimeDetection).
PassBegan == lastOp \in {"passRan", "passSuspended"}
\* The step into this state ended a run of detectFrame.
TickEnded == lastOp \in {"passRan", "passResumed", "passSkipped"}
NoCounts == [faces |-> 0, hands |-> 0, fps |-> 0]

\* C1: while the detector is Active(Detecting) with a stream attached, the
\* frame loop keeps running: when a tick has completed, the next one is
\* scheduled (an animation frame is pending).
C1_LoopKeepsRunning ==
    (TickEnded /\ Detecting /\ srcObject) => rafCallbacks # {}

\* C2: while the detector is Paused no pipeline pass begins, whichever
\* callback would start it.
C2_NoPassWhilePaused ==
    PassBegan => ~Paused

\* C3: as long as the detector is Paused, stats.faces = 0 and stats.hands = 0.
C3_PausedCountsCleared ==
    Paused => (stats.faces = 0 /\ stats.hands = 0)

\* C4: whenever the detector is stopped and no start has been requested,
\* faces, hands and fps are all 0, also when a tick was in flight at the stop.
C4_StoppedCountersZero ==
    (mounted /\ ~isActive /\ ~camera.pending) => stats = NoCounts

\* C5: after stopCamera the stored previous frame is gone.
C5_StopReleasesPreviousFrame ==
    lastOp = "stopCamera" => previousFrameRef = NoFrame

\* C6: every successful start puts the detector in Active(Detecting).
C6_StartIsDetecting ==
    lastOp = "cameraGranted" => (isActive /\ isDetecting)

\* C7: while the detector stays stopped no run of detectFrame starts and no
\* animation frame is requested; stopCamera leaves a tick that is in flight
\* alone, and that tick can still run to its end.
C7_NoTickAfterStop ==
    [][/\ (~isActive /\ ~isActive') =>
            /\ lastOp' \notin {"passRan", "passSuspended", "passSkipped"}
            /\ rafCallbacks' \subseteq rafCallbacks
            /\ metadataTask' = FALSE
       /\ lastOp' = "stopCamera" => (inFlight' = inFlight /\ rafCallbacks' = {})
       /\ (~isActive /\ inFlight # <<>>) => ENABLED DetectSettles]_vars

\* A tick that was in flight at the stop has run to its end, the detector is
\* still stopped, and nothing is scheduled.
C7_Witness ==
    mounted /\ ~isActive /\ ~camera.pending /\ lastOp = "passResumed" /\ rafCallbacks = {}

\* C8: at most one pipeline pass is in flight at any time.
C8_OnePassInFlight ==
    Len(inFlight) <= 1

\* C9: initialization always reaches Ready: after loadDetectionModels, whatever
\* the browser answered, isLoading is false and a start request is accepted;
\* the only loading state there ever is afterwards is a pending camera request.
C9_InitReachesReady ==
    /\ lastOp = "mount" => (~isLoading /\ ENABLED StartCamera)
    /\ (mounted /\ isLoading) => camera.pending

\* Mounted with a FaceDetector constructor that threw.
C9_Witness ==
    lastOp = "mount" /\ status = "Using fallback detection methods" /\ ~isLoading

\* C10: after any sequence of transitions the dashboard's faceDetection,
\* handDetection and cameraActive flags equal the detector's current state.
C10_DashboardMatches ==
    /\ activities.faceDetection = (isActive /\ isDetecting)
    /\ activities.handDetection = (isActive /\ isDetecting)
    /\ activities.cameraActive = isActive
    /\ activities.imageConversion = converting

\* A stop after a pause: the camera flag went back to false while
\* isDetecting stayed false.
C10_Witness ==
    /\ lastOp = "stopCamera" /\ ~isDetecting
    /\ activities = [faceDetection |-> FALSE, handDetection |-> FALSE,
                     imageConversion |-> TRUE, cameraActive |-> FALSE]

(***************************************************************************)
(* Properties of the pipeline.  The geometry they speak of is written out  *)
(* here, apart from the functions it is checked against.                   *)
(***************************************************************************)
Range(seq) == {seq[i] : i \in 1..Len(seq)}
Count(seq, r) == Cardinality({i \in 1..Len(seq) : seq[i] = r})
\* Area shared by two regions.
Shared(a, b) ==
    Max(0, Min(a.x + a.width, b.x + b.width) - Max(a.x, b.x))
        * Max(0, Min(a.y + a.height, b.y + b.height) - Max(a.y, b.y))
\* intersection over union of a and b is greater than num / den
IoUGreater(a, b, num, den) ==
    den * Shared(a, b) > num * (a.width * a.height + b.width * b.height - Shared(a, b))
\* Region outer contains region inner.
Contains(outer, inner) ==
    /\ outer.x <= inner.x /\ inner.x + inner.width <= outer.x + outer.width
    /\ outer.y <= inner.y /\ inner.y + inner.height <= outer.y + outer.height
\* The smallest region containing a and b.
BoundingBox(a, b) ==
    Region(Min(a.x, b.x), Min(a.y, b.y),
           Max(a.x + a.width, b.x + b.width) - Min(a.x, b.x),
           Max(a.y + a.height, b.y + b.height) - Min(a.y, b.y))
\* The frame: the canvas, which has the size of the video.
InFrame(r) == Contains(Region(0, 0, VideoWidth, VideoHeight), r)
\* A function called on its own has returned.
Returned(fn) == input.fn = fn /\ output.done

\* C11: a tick whose detect call resolved uses the detector's rectangles as
\* its faces; a tick whose detect call rejected, or that made no call, takes
\* its faces from detectFallbackFaces; either way the tick ends by publishing
\* its counts.
C11_NativeElseFallback ==
    pass.ran =>
        /\ pass.native.kind = "resolved" => pass.detectedFaces = pass.native.faces
        /\ pass.native.kind \in {"rejected", "notCalled"} =>
                pass.detectedFaces = FacesOf[pass.frame]
        /\ faceDetectorRef = "null" => pass.native.kind = "notCalled"
        /\ stats.faces = Len(pass.detectedFaces)

\* The detector rejected and the heuristic pipeline found the face.
C11_Witness ==
    pass.ran /\ pass.native.kind = "rejected" /\ Len(pass.detectedFaces) = 1

\* C12: every tick's result holds at most 3 faces, whichever strategy
\* produced them.
C12_AtMostThreeFaces ==
    pass.ran => (Len(pass.detectedFaces) <= 3 /\ stats.faces <= 3)

\* C13: a tick whose frame source is not ready publishes an empty result
\* (stated for the ticks that never called the detector).
C13_NotReadyIsEmpty ==
    (pass.ran /\ ~pass.ready /\ pass.native.kind = "notCalled") =>
        /\ pass.detectedFaces = <<>> /\ pass.detectedHands = <<>>
        /\ stats.faces = 0 /\ stats.hands = 0

\* C14: removeOverlappingFaces returns a sub-list of its input of at most 3
\* regions, no two of them with intersection over union above 0.4.
C14_SuppressionSound ==
    Returned("removeOverlappingFaces") =>
        /\ \A r \in Range(output.value) : Count(output.value, r) <= Count(input.faces, r)
        /\ Len(output.value) <= 3
        /\ \A i, j \in 1..Len(output.value) :
              i < j => ~IoUGreater(output.value[i], output.value[j], 4, 10)

\* Four candidates, two of them overlapping by more than 0.4, of which three
\* are returned.
C14_Witness ==
    /\ Returned("removeOverlappingFaces")
    /\ Len(input.faces) = 4 /\ Len(output.value) = 3
    /\ \E i, j \in 1..4 : i < j /\ IoUGreater(input.faces[i], input.faces[j], 4, 10)

\* C15: every face and every hand of a tick's result lies inside the frame.
C15_RegionsInFrame ==
    pass.ran => \A r \in Range(pass.detectedFaces) \cup Range(pass.detectedHands) : InFrame(r)

\* C16: a tick that finds no previous frame stored has no motion regions
\* and returns no hands, and ends like any other.
C16_FirstTickNoHands ==
    (pass.ran /\ pass.previousFrame = NoFrame) =>
        /\ pass.motionRegions = <<>>
        /\ pass.detectedHands = <<>>
        /\ stats.hands = 0
        /\ previousFrameRef = pass.frame

\* The first tick of the detector, on a white picture.
C16_Witness ==
    /\ pass.ran /\ pass.previousFrame = NoFrame /\ lastOp = "passRan"
    /\ pass.frame = getImageData(TRUE, [fill |-> White, lit |-> {}, marks |-> {}])

\* C17: combineMotionAndSkin emits one region for each (motion, skin) pair
\* with intersection over union above 0.25 and nothing else; the region of a
\* pair is the bounding box of the two blocks and contains both.
C17_FusionExact ==
    Returned("combineMotionAndSkin") =>
        LET close == {q \in (1..Len(input.motionRegions)) \X (1..Len(input.skinRegions)) :
                        IoUGreater(input.motionRegions[q[1]], input.skinRegions[q[2]], 25, 100)}
            box(q) == BoundingBox(input.motionRegions[q[1]], input.skinRegions[q[2]])
        IN  /\ Len(output.value) = Cardinality(close)
            /\ \A r \in Range(output.value) \cup {box(q) : q \in close} :
                  Count(output.value, r) = Cardinality({q \in close : box(q) = r})
            /\ \A q \in close :
                  /\ Contains(box(q), input.motionRegions[q[1]])
                  /\ Contains(box(q), input.skinRegions[q[2]])

\* Two motion blocks and two skin blocks of which some pairs fuse and some
\* do not.
C17_Witness ==
    /\ Returned("combineMotionAndSkin")
    /\ Len(input.motionRegions) = 2 /\ Len(input.skinRegions) = 2
    /\ Len(output.value) = 1

\* The call of the specification's fusion example.
FusionExample ==
    /\ Returned("combineMotionAndSkin")
    /\ input.motionRegions = <<Region(0, 0, 16, 16)>>
    /\ input.skinRegions = <<Region(8, 8, 12, 12)>>

\* C18 as stated: the motion block (0,0,16,16) and the skin block
\* (8,8,12,12) have intersection over union above 0.25 and fuse into the
\* region from (0,0) to (20,20).
C18_ExampleFuses ==
    FusionExample =>
        /\ IoUGreater(Region(0, 0, 16, 16), Region(8, 8, 12, 12), 25, 100)
        /\ output.value = <<Region(0, 0, 20, 20)>>

\* C18 amended: the two blocks share 64 of 336 pixels, which is not above
\* 0.25, so they are not fused; the region bounding both is (0,0) to (20,20).
C18_ExampleNotFused ==
    FusionExample =>
        /\ Shared(Region(0, 0, 16, 16), Region(8, 8, 12, 12)) = 64
        /\ ~IoUGreater(Region(0, 0, 16, 16), Region(8, 8, 12, 12), 25, 100)
        /\ output.value = <<>>
        /\ BoundingBox(Region(0, 0, 16, 16), Region(8, 8, 12, 12)) = Region(0, 0, 20, 20)

C18_Witness == FusionExample /\ output.value = <<>>

\* C19: for a frame of value 0 followed by a frame of value 255, detectMotion
\* emits every 16x16 block of the grid that lies fully inside the frame.
C19_EveryFullBlock ==
    (Returned("detectMotion") /\ input.current.fill = White) =>
        \A bx \in 0..(input.current.width \div 16), by \in 0..(input.current.height \div 16) :
            (16 * bx + 16 <= input.current.width /\ 16 * by + 16 <= input.current.height)
                => Region(16 * bx, 16 * by, 16, 16) \in Range(output.value)

\* C20: isHandLikeShape holds exactly when 0.4 < width/height < 2.5 and
\* 300 < width*height < 8000; 40x40 passes, 5x5 and 200x10 do not; every
\* hand of the hand path, halved back to working resolution, is in both
\* bounds.
C20_ShapeFilter ==
    /\ Returned("isHandLikeShape") =>
          LET w == input.region.width
              h == input.region.height
          IN  /\ output.value = (/\ 2 * h < 5 * w /\ 2 * w < 5 * h
                                 /\ 300 < w * h /\ w * h < 8000)
              /\ (w = 40 /\ h = 40) => output.value
              /\ (w = 5 /\ h = 5) => ~output.value
              /\ (w = 200 /\ h = 10) => ~output.value
    /\ Returned("detectFallbackHands") =>
          \A hand \in Range(output.value.hands) :
              /\ 2 * hand.height < 5 * hand.width /\ 2 * hand.width < 5 * hand.height
              /\ 4 * 300 < hand.width * hand.height /\ hand.width * hand.height < 4 * 8000

C20_Witness ==
    /\ Returned("isHandLikeShape")
    /\ input.region.width = 40 /\ input.region.height = 40
    /\ output.value

\* C21 as the specification states it: on the 128 by 96 buffer drawn for the
\* size-64 window at (20, 10), the face path returns a candidate that covers
\* that window (read in the buffer's coordinates or in the frame's).
C21_CoversWindow ==
    Returned("detectFallbackFaces") =>
        \E face \in Range(output.value) :
            \/ Contains(face, ExampleWindow)
            \/ Contains(face, ScaleBack(ExampleWindow))

\* C21: on that buffer the scan tries windows of size 60 only (the next
\* size, 85, is above min(128, 96) / 1.5 = 64), so every candidate returned
\* is 120 by 120 in frame coordinates and none covers the size-64 window;
\* on the black ground the face path returns the size-60 windows at (0, 12)
\* and (48, 12), which both overlap the size-64 window, and on the grey and
\* the white ground it returns nothing.
C21_NearestScannedWindow ==
    Returned("detectFallbackFaces") =>
        /\ \A face \in Range(output.value) :
              /\ face.width = 120 /\ face.height = 120
              /\ ~Contains(face, ExampleWindow)
              /\ ~Contains(face, ScaleBack(ExampleWindow))
        /\ input.imageData.fill = Black =>
              /\ output.value = <<ScaleBack(Region(0, 12, 60, 60)),
                                  ScaleBack(Region(48, 12, 60, 60))>>
              /\ Shared(Region(0, 12, 60, 60), ExampleWindow) > 0
              /\ Shared(Region(48, 12, 60, 60), ExampleWindow) > 0
        /\ input.imageData.fill # Black => output.value = <<>>

\* The black ground: two candidates come back.
C21_Witness ==
    /\ Returned("detectFallbackFaces")
    /\ input.imageData.fill = Black
    /\ Len(output.value) = 2

\* C22: calculateOverlap of a rectangle of positive width and height with
\* itself is 1, and calculateOverlap of two rectangles that share no area,
\* those that only touch along an edge or at a corner included, is 0; in
\* between it is the shared area over the area of the union.
C22_OverlapExtremes ==
    Returned("calculateOverlap") =>
        LET a == input.rect1
            b == input.rect2
            ratio == output.value
        IN  /\ ratio[2] > 0
            /\ a = b => ratio[1] = ratio[2]
            /\ Shared(a, b) = 0 => ratio[1] = 0
            /\ ratio[1] * (Area(a) + Area(b) - Shared(a, b)) = Shared(a, b) * ratio[2]

\* Two different rectangles that touch along a vertical edge.
C22_Witness ==
    /\ Returned("calculateOverlap")
    /\ input.rect1.x + input.rect1.width = input.rect2.x
    /\ input.rect1.y = input.rect2.y
    /\ output.value[1] = 0

\* The three skin rules stated on the pixel's channels.  U and V are the
\* weighted sums in thousandths.  The hue is within [0, 60] degrees after
\* rounding exactly when red is the largest channel and the angle
\* 60 (g - b) / diff is at least -1/2, or green is the largest and the angle
\* 60 (b - r) / diff + 120 is below 60 1/2; the saturation is diff / max.
YuvRule(r, g, b) ==
    /\ -20000 <= 500 * b - 169 * r - 331 * g /\ 500 * b - 169 * r - 331 * g <= 30000
    /\ -15000 <= 500 * r - 419 * g - 81 * b /\ 500 * r - 419 * g - 81 * b <= 25000
HsvRule(r, g, b) ==
    LET max == CHOOSE m \in {r, g, b} : \A c \in {r, g, b} : c <= m
        min == CHOOSE m \in {r, g, b} : \A c \in {r, g, b} : c >= m
        diff == max - min
    IN  /\ diff > 0
        /\ \/ r = max /\ 120 * (g - b) + diff >= 0
           \/ r < max /\ g = max /\ 120 * (r - b) > 119 * diff
        /\ 5 * diff >= max /\ 5 * diff <= 4 * max
RgbRule(r, g, b) ==
    /\ r > 85 /\ g > 35 /\ b > 15
    /\ \E c, d \in {r, g, b} : c - d > 12
    /\ r - g > 12 /\ r > b

Rank(faces, i) ==
    1 + Cardinality({j \in 1..Len(faces) :
                        \/ Area(faces[j]) > Area(faces[i])
                        \/ Area(faces[j]) = Area(faces[i]) /\ j < i})
Ordered(faces) ==
    [k \in 1..Len(faces) |-> faces[CHOOSE i \in 1..Len(faces) : Rank(faces, i) = k]]
RECURSIVE GreedyUpTo(_, _, _)
GreedyUpTo(ordered, accepted, limit) ==
    IF ordered = <<>> \/ Len(accepted) = limit THEN accepted
    ELSE GreedyUpTo(Tail(ordered),
                    IF \A k \in 1..Len(accepted) :
                           ~IoUGreater(Head(ordered), accepted[k], 4, 10)
                    THEN Append(accepted, Head(ordered)) ELSE accepted,
                    limit)

\* C24: removeOverlappingFaces returns the list of the greedy reference
\* procedure stopped at 3, which is also the first 3 of the procedure run
\* without a stop; a non-empty input keeps its first largest candidate at
\* the head of the result.
C24_GreedyReference ==
    Returned("removeOverlappingFaces") =>
        LET ordered == Ordered(input.faces)
            full == GreedyUpTo(ordered, <<>>, Len(input.faces) + 1)
        IN  /\ output.value = GreedyUpTo(ordered, <<>>, 3)
            /\ output.value = SubSeq(full, 1, IF Len(full) < 3 THEN Len(full) ELSE 3)
            /\ input.faces # <<>> =>
                  \E i \in 1..Len(input.faces) :
                      /\ output.value[1] = input.faces[i]
                      /\ \A j \in 1..Len(input.faces) :
                            /\ Area(input.faces[j]) <= Area(input.faces[i])
                            /\ j < i => Area(input.faces[j]) < Area(input.faces[i])

\* Two overlapping candidates of one area ahead of a larger one: the
\* larger comes first, then the earlier of the two, and the later is
\* dropped.
C24_Witness ==
    /\ Returned("removeOverlappingFaces")
    /\ Len(input.faces) = 4
    /\ input.faces[1] = Region(24, 0, 120, 120)
    /\ input.faces[2] = Region(0, 0, 120, 120)
    /\ input.faces[3] = Region(300, 300, 170, 170)
    /\ output.value = <<Region(300, 300, 170, 170), Region(24, 0, 120, 120),
                        input.faces[4]>>

\* The samples of a band that lie inside the buffer: their number and the
\* sum of their grey values.  The band is cols columns by rows rows from
\* (x0, y0) in a buffer read "width" values to the row.
BandInside(grayData, width, x0, y0, cols, rows) ==
    {o \in Offsets(rows, cols) : (y0 + o[1]) * width + (x0 + o[2]) < GrayLength(grayData)}
BandMean(grayData, width, x0, y0, cols, rows) ==
    LET grey == [o \in Offsets(rows, cols) |->
                   IF o \in BandInside(grayData, width, x0, y0, cols, rows)
                   THEN GrayAt(grayData, (y0 + o[1]) * width + (x0 + o[2])) ELSE 0]
    IN  [sum |-> SumBlock(grey, rows, cols),
         count |-> Cardinality(BandInside(grayData, width, x0, y0, cols, rows))]
\* mean of band a exceeds mean of band b by more than k
MeanExceeds(a, b, k) == a.sum * b.count > (b.sum + k * b.count) * a.count
\* The score of a window of size 60 when every band's mean is taken over
\* the samples inside the buffer.
ScoreOfInsideSamples(grayData, width, x, y) ==
    LET left == BandMean(grayData, width, x + 12, y + 15, 12, 15)
        right == BandMean(grayData, width, x + 39, y + 15, 12, 15)
        forehead == BandMean(grayData, width, x + 12, y + 3, 36, 15)
    IN  /\ left.count > 0 /\ right.count > 0 /\ forehead.count > 0
        /\ left.sum < 110 * left.count /\ right.sum < 110 * right.count
        /\ MeanExceeds(forehead, left, 15) /\ MeanExceeds(forehead, right, 15)
        /\ ~MeanExceeds(left, right, 24) /\ ~MeanExceeds(right, left, 24)
        /\ MeanExceeds(forehead, left, 20) \/ MeanExceeds(forehead, right, 20)

\* C25: a band sample outside the buffer is left out of the band's sum and
\* of the count its mean divides by, so isFaceRegion scores a window by the
\* means of the samples inside the buffer, and it fails a window with no
\* eye sample inside.
C25_SkippedNotCounted ==
    Returned("isFaceRegion") =>
        output.value = ScoreOfInsideSamples(input.grayData, input.grayData.width,
                                            input.x, input.y)

\* C28: a pixel with three equal channels has U = 0 and V = 0 and is skin,
\* whatever its value in 0..255; of a frame of one grey (black and white
\* included) detectSkinRegions returns every block its loops visit, the
\* blocks at the multiples of 12 below width - 12 and height - 12.
C28_AchromaticIsSkin ==
    /\ (Returned("isAdvancedSkinColor") /\ input.r = input.g /\ input.g = input.b) =>
          /\ 500 * input.b - 169 * input.r - 331 * input.g = 0
          /\ 500 * input.r - 419 * input.g - 81 * input.b = 0
          /\ output.value
    /\ Returned("detectSkinRegions") =>
          LET visited == {Region(12 * bx, 12 * by, 12, 12) :
                             bx \in {i \in 0..input.data.width : 12 * i < input.data.width - 12},
                             by \in {j \in 0..input.data.height : 12 * j < input.data.height - 12}}
          IN  /\ Range(output.value) = visited
              /\ Len(output.value) = Cardinality(visited)

\* A mid-grey frame of 36 by 36: its four visited blocks are all skin.
C28_Witness ==
    /\ Returned("detectSkinRegions")
    /\ input.data = Frame(36, 36, Grey)
    /\ Len(output.value) = 4

\* The shape bounds on a region of the given width and height.
InShapeBounds(w, h) == 2 * h < 5 * w /\ 2 * w < 5 * h /\ 300 < w * h /\ w * h < 8000

\* C27: every hand the hand path returns is 32 by 40 or 40 by 32 in frame
\* coordinates.  For motion blocks of the 16-pixel grid and skin blocks of
\* the 12-pixel grid, a fused region that is within the shape bounds is 16
\* by 20 or 20 by 16, and a skin block that lies inside a motion block
\* fuses with it into that motion block, 16 by 16, whose area of 256 is
\* below the bounds.
C27_HandSizes ==
    /\ Returned("detectFallbackHands") =>
          \A hand \in Range(output.value.hands) :
              <<hand.width, hand.height>> \in {<<32, 40>>, <<40, 32>>}
    /\ (/\ Returned("combineMotionAndSkin")
        /\ Range(input.motionRegions) \subseteq GridMotion
        /\ Range(input.skinRegions) \subseteq GridSkin) =>
          /\ \A r \in Range(output.value) :
                InShapeBounds(r.width, r.height) =>
                    <<r.width, r.height>> \in {<<16, 20>>, <<20, 16>>}
          /\ \A m \in Range(input.motionRegions), k \in Range(input.skinRegions) :
                Contains(m, k) =>
                    /\ m \in Range(output.value)
                    /\ m.width * m.height = 256
                    /\ ~InShapeBounds(m.width, m.height)

\* A picture pair that gives hands of both sizes.
C27_Witness ==
    /\ Returned("detectFallbackHands")
    /\ \E hand \in Range(output.value.hands) : hand.width = 32 /\ hand.height = 40
    /\ \E hand \in Range(output.value.hands) : hand.width = 40 /\ hand.height = 32

\* The motion blocks between a picture and the one before it.
MotionBetween ==
    [current \in Pictures |->
        [previous \in Pictures |->
            detectMotion(current, previous, current.width, current.height)]]

\* C26: a tick that runs the hand path computes its motion regions from its
\* own frame and the frame previousFrameRef held before the tick (none when
\* it held no frame), and leaves its own frame in previousFrameRef; no other
\* step changes previousFrameRef, so the frame a tick reads is the frame of
\* the tick before it.
C26_ReadsThenStores ==
    [][/\ pass'.ran =>
            /\ pass'.previousFrame = previousFrameRef
            /\ pass'.motionRegions =
                  IF previousFrameRef = NoFrame THEN <<>>
                  ELSE MotionBetween[pass'.frame][previousFrameRef]
            /\ previousFrameRef' = pass'.frame
       /\ ~pass'.ran => previousFrameRef' = previousFrameRef]_vars

\* A tick that found motion between the frame of the tick before it and
\* its own, different, frame.
C26_Witness ==
    /\ pass.ran
    /\ pass.previousFrame # NoFrame /\ pass.previousFrame # pass.frame
    /\ pass.motionRegions # <<>>
    /\ previousFrameRef = pass.frame

\* C29: when getUserMedia rejects, isActive was false and stays false,
\* isDetecting, the counters and the frame counter keep their values,
\* isLoading goes from true to false, no stream is attached and no tick is
\* queued or put in flight; in the state this leaves, nothing is scheduled
\* and a start request can be issued.
C29_DeniedStartStaysStopped ==
    /\ [][lastOp' = "cameraDenied" =>
            /\ ~isActive /\ ~isActive'
            /\ isDetecting' = isDetecting
            /\ stats' = stats /\ frameCountRef' = frameCountRef
            /\ isLoading /\ ~isLoading'
            /\ ~srcObject'
            /\ metadataTask' = FALSE /\ rafCallbacks' = rafCallbacks
            /\ inFlight' = inFlight]_vars
    /\ [](lastOp = "cameraDenied" =>
            /\ ~metadataTask /\ rafCallbacks = {}
            /\ ENABLED StartCamera)

\* The camera was refused on a restart, after a session that had run ticks.
C29_Witness ==
    /\ lastOp = "cameraDenied"
    /\ status = "Camera access denied"
    /\ ~isActive /\ ~isLoading
    /\ previousFrameRef # NoFrame

====
